---- MODULE Spec2Model ----
(***************************************************************************)
(* ASTNodeBitfield::createPatterns (lib/include/pl/core/ast/               *)
(* ast_node_bitfield.hpp) as a state machine: one evaluation of a bitfield *)
(* declaration against the evaluator's bit cursor, reversed-flag,          *)
(* control-flow signal and scope stack.                                    *)
(***************************************************************************)
EXTENDS Integers, Sequences, FiniteSets

\* ---------------------------------------------------------------- bounds
MaxEntries == 3
MaxFieldBits == 1
MaxFixedSize == 2
MaxScopeDepth == 1
MaxCalls == 2
MaxRepeatEntries == 1

\* ------------------------------------------------------------- constants
MostToLeastSignificant == 0
LeastToMostSignificant == 1

\* ------------------------------------------------------------ data model
ControlFlowStatement == {"None", "Continue", "Break", "Return"}

Endians == {"little", "big"}

\* result of evaluating an attribute argument: a literal or void
Literal(v) == [literal |-> TRUE, value |-> v]
VoidNode == [literal |-> FALSE, value |-> 0]

NoAttribute == [name |-> "", arguments |-> <<>>]

\* the node an error cites
NoNode == [kind |-> "none", name |-> "", index |-> 0]
AttributeNode(a) == [kind |-> "attribute", name |-> a.name, index |-> 0]
ArgumentNode(i) == [kind |-> "argument", name |-> "bitfield_order", index |-> i]
EntryNode(i) == [kind |-> "entry", name |-> "", index |-> i]

LegacyAttributes ==
    { [name |-> "left_to_right", arguments |-> <<>>],
      [name |-> "right_to_left", arguments |-> <<>>] }

DirectionNodes == {VoidNode} \cup {Literal(v) : v \in 0..2}
SizeNodes == {VoidNode} \cup {Literal(v) : v \in 0..MaxFixedSize}

OrderAttributes ==
    { [name |-> "bitfield_order", arguments |-> <<Literal(0)>>],
      [name |-> "bitfield_order", arguments |-> <<Literal(0), Literal(1), Literal(1)>>] }
    \cup { [name |-> "bitfield_order", arguments |-> <<d, s>>] :
             d \in DirectionNodes, s \in SizeNodes }

AttributeSets ==
    { L \cup O : L \in SUBSET LegacyAttributes,
                 O \in {{}} \cup {{a} : a \in OrderAttributes} }

\* (byte, bit) cursor
ByteAndBitOffset(n) == [byteOffset |-> n \div 8, bitOffset |-> n % 8]
BitsOf(p) == (p.byteOffset * 8) + p.bitOffset

\* the cursor starts far enough from 0 for reversed reads to stay in range
StartBits == (MaxEntries * MaxFieldBits) + MaxFixedSize + 1
StartPositions == {ByteAndBitOffset(StartBits)}

\* what one entry's createPatterns can do
EntryKinds == {"none", "member", "padding", "other"}
EntryResults ==
    [bits : 0..MaxFieldBits, kind : EntryKinds, signal : ControlFlowStatement, throws : {FALSE}]
    \cup [bits : {0}, kind : {"none"}, signal : {"None"}, throws : {TRUE}]

PatternsOf(r, n) ==
    IF r.kind = "none" THEN <<>>
    ELSE << [entry |-> n, member |-> (r.kind # "other"), padding |-> (r.kind = "padding")] >>

VARIABLES
    \* evaluator
    cursor, reversed, cfs, scopeDepth, arrayIndex, endian,
    \* declaration
    attributes, nEntries,
    \* createPatterns locals
    pc, position, prevReversed, reversedChanged, fixedSize, initialPosition,
    potentialPatterns, patterns, fields, idx, orderExamined,
    \* the bitfield pattern under construction and the call's outcome
    bitSize, patternReversed, result, err, errNode,
    \* pattern objects: how many were created, the one under construction, the
    \* ones earlier evaluations returned, and the number of evaluations so far
    allocated, bitfieldPattern, earlier, calls,
    \* history
    preDepth, consumed, lastSignal, returned, pushes, pops

evaluatorVars == <<cursor, reversed, cfs, scopeDepth, arrayIndex, endian>>
declVars == <<attributes, nEntries>>
localVars == <<position, prevReversed, reversedChanged, fixedSize, initialPosition,
               potentialPatterns, patterns, fields, idx, orderExamined>>
patternVars == <<bitSize, patternReversed, result, err, errNode>>
heapVars == <<allocated, bitfieldPattern, earlier, calls>>
historyVars == <<preDepth, consumed, lastSignal, returned, pushes, pops>>
vars == <<evaluatorVars, declVars, pc, localVars, patternVars, heapVars, historyVars>>

\* ------------------------------------------------------------- evaluator
getAttributeByName(attrs, n) ==
    IF \E a \in attrs : a.name = n
    THEN CHOOSE a \in attrs : a.name = n
    ELSE NoAttribute

\* advance the cursor by a bit count
getBitwiseReadOffsetAndIncrement(cur, size) == ByteAndBitOffset(BitsOf(cur) + size)

\* an entry reads its bits forward, or backward in reversed mode
EntryRead(cur, rev, bits) ==
    IF rev THEN ByteAndBitOffset(BitsOf(cur) - bits)
    ELSE ByteAndBitOffset(BitsOf(cur) + bits)

Init ==
    /\ cursor \in StartPositions
    /\ reversed \in BOOLEAN
    /\ cfs = "None"
    /\ scopeDepth = MaxScopeDepth
    /\ arrayIndex \in BOOLEAN
    /\ endian \in Endians
    /\ attributes \in AttributeSets
    /\ nEntries \in 0..MaxEntries
    /\ pc = "start"
    /\ position = cursor
    /\ prevReversed = reversed
    /\ reversedChanged = FALSE
    /\ fixedSize = 0
    /\ initialPosition = cursor
    /\ potentialPatterns = <<>>
    /\ patterns = <<>>
    /\ fields = <<>>
    /\ idx = 0
    /\ orderExamined = FALSE
    /\ bitSize = 0
    /\ patternReversed = FALSE
    /\ result = <<>>
    /\ err = "none"
    /\ errNode = NoNode
    /\ allocated = 0
    /\ bitfieldPattern = 0
    /\ earlier = {}
    /\ calls = 1
    /\ preDepth = scopeDepth
    /\ consumed = 0
    /\ lastSignal = "None"
    /\ returned = <<>>
    /\ pushes = 0
    /\ pops = 0

\* line 37: std::make_shared, a new pattern object at every evaluation
makePattern(n) == n + 1

\* lines 34-43: snapshot the cursor and the flag, create the pattern
Enter ==
    /\ pc = "start"
    /\ position' = cursor
    /\ allocated' = allocated + 1
    /\ bitfieldPattern' = makePattern(allocated)
    /\ bitSize' = 0
    /\ prevReversed' = reversed
    /\ reversedChanged' = FALSE
    /\ fixedSize' = 0
    /\ pc' = "legacy"
    /\ UNCHANGED <<evaluatorVars, declVars, initialPosition, potentialPatterns, patterns,
                   fields, idx, orderExamined, patternReversed, result, err, errNode,
                   earlier, calls, historyVars>>

\* variant: only left_to_right is looked up
badAttribute_ltrOnly(attrs) == getAttributeByName(attrs, "left_to_right")

\* lines 46-50: the legacy direction-only attribute, left_to_right first
badAttribute(attrs) ==
    IF getAttributeByName(attrs, "left_to_right") # NoAttribute
    THEN getAttributeByName(attrs, "left_to_right")
    ELSE getAttributeByName(attrs, "right_to_left")

Fail(e, node) ==
    /\ pc' = "failed"
    /\ err' = e
    /\ errNode' = node

\* lines 45-53: reject left_to_right / right_to_left
RejectLegacy ==
    /\ pc = "legacy"
    /\ IF badAttribute(attributes) # NoAttribute
       THEN Fail("E0008:no_longer_supported", AttributeNode(badAttribute(attributes)))
       ELSE pc' = "order" /\ UNCHANGED <<err, errNode>>
    /\ UNCHANGED <<evaluatorVars, declVars, localVars, bitSize, patternReversed, result,
                   historyVars, heapVars>>

\* lines 64-77: the direction argument, "none" when it is a valid BitfieldOrder
directionError(directionNode) ==
    IF directionNode.literal
    THEN IF directionNode.value \in {MostToLeastSignificant, LeastToMostSignificant}
         THEN "none"
         ELSE "E0008:invalid_order"
    ELSE "E0008:direction_void"

\* variant: a zero size is let through
sizeError_zeroAccepted(sizeNode) ==
    IF sizeNode.literal THEN "none" ELSE "E0008:size_void"

\* lines 78-86: the size argument, "none" when it is a literal greater than zero
sizeError(sizeNode) ==
    IF sizeNode.literal
    THEN IF sizeNode.value = 0 THEN "E0008:size_zero" ELSE "none"
    ELSE "E0008:size_void"

\* variant: only the little-endian case reverses
shouldBeReversed_littleOnly(order, e) ==
    order = MostToLeastSignificant /\ e = "little"

\* variant: the endianness is not looked at
shouldBeReversed_ignoresEndian(order, e) ==
    order = MostToLeastSignificant

\* lines 88-89
shouldBeReversed(order, e) ==
    \/ (order = MostToLeastSignificant /\ e = "little")
    \/ (order = LeastToMostSignificant /\ e = "big")

\* lines 55-97: the bitfield_order attribute
ResolveOrder ==
    /\ pc = "order"
    /\ LET orderAttribute == getAttributeByName(attributes, "bitfield_order")
           arguments == orderAttribute.arguments
       IN IF orderAttribute = NoAttribute
          THEN /\ pc' = "scope"
               /\ UNCHANGED <<cursor, reversed, reversedChanged, fixedSize, orderExamined,
                              err, errNode>>
          ELSE /\ orderExamined' = TRUE
               /\ IF Len(arguments) # 2
                  THEN /\ Fail("E0008:expected_2_parameters", AttributeNode(orderAttribute))
                       /\ UNCHANGED <<cursor, reversed, reversedChanged, fixedSize>>
                  ELSE IF directionError(arguments[1]) # "none"
                  THEN /\ Fail(directionError(arguments[1]), ArgumentNode(0))
                       /\ UNCHANGED <<cursor, reversed, reversedChanged, fixedSize>>
                  ELSE IF sizeError(arguments[2]) # "none"
                  THEN /\ Fail(sizeError(arguments[2]), ArgumentNode(1))
                       /\ UNCHANGED <<cursor, reversed, reversedChanged, fixedSize>>
                  ELSE LET order == arguments[1].value
                           size == arguments[2].value
                       IN /\ IF prevReversed # shouldBeReversed(order, endian)
                             THEN /\ reversedChanged' = TRUE
                                  /\ cursor' = getBitwiseReadOffsetAndIncrement(cursor, size)
                                  /\ reversed' = shouldBeReversed(order, endian)
                             ELSE UNCHANGED <<reversedChanged, cursor, reversed>>
                          /\ fixedSize' = size
                          /\ pc' = "scope"
                          /\ UNCHANGED <<err, errNode>>
    /\ UNCHANGED <<cfs, scopeDepth, arrayIndex, endian, declVars, position, prevReversed,
                   initialPosition, potentialPatterns, patterns, fields, idx,
                   bitSize, patternReversed, result, historyVars, heapVars>>

\* line 102
pushScope(depth) == depth + 1

\* variant: the scope is left open
ScopeExit_leak(depth) == depth

\* lines 103-105: ON_SCOPE_EXIT { evaluator->popScope(); }
ScopeExit(depth) == depth - 1

\* lines 99-107: open the scope, snapshot the cursor the fields start from
OpenScope ==
    /\ pc = "scope"
    /\ scopeDepth' = pushScope(scopeDepth)
    /\ pushes' = pushes + 1
    /\ initialPosition' = cursor
    /\ potentialPatterns' = <<>>
    /\ fields' = <<>>
    /\ pc' = IF nEntries = 0 THEN "assemble" ELSE "loop"
    /\ UNCHANGED <<cursor, reversed, cfs, arrayIndex, endian, declVars, position,
                   prevReversed, reversedChanged, fixedSize, patterns, idx, orderExamined,
                   patternVars, preDepth, consumed, lastSignal, returned, pops, heapVars>>

\* lines 121-122: the next entry's createPatterns
EvalEntry ==
    /\ pc = "loop"
    /\ idx < nEntries
    /\ idx' = idx + 1
    /\ \E r \in EntryResults :
         IF r.throws
         THEN /\ Fail("entry_error", EntryNode(idx + 1))
              /\ scopeDepth' = ScopeExit(scopeDepth)
              /\ pops' = pops + 1
              /\ UNCHANGED <<cursor, cfs, patterns, consumed, lastSignal, returned>>
         ELSE /\ cursor' = EntryRead(cursor, reversed, r.bits)
              /\ cfs' = IF r.signal = "None" THEN cfs ELSE r.signal
              /\ lastSignal' = cfs'
              /\ patterns' = PatternsOf(r, idx + 1)
              /\ returned' = returned \o PatternsOf(r, idx + 1)
              /\ consumed' = consumed + r.bits
              /\ pc' = "entry"
              /\ UNCHANGED <<scopeDepth, pops, err, errNode>>
    /\ UNCHANGED <<reversed, arrayIndex, endian, declVars, position, prevReversed,
                   reversedChanged, fixedSize, initialPosition, potentialPatterns, fields,
                   orderExamined, bitSize, patternReversed, result, preDepth, pushes, heapVars>>

\* variant: the distance is only taken forward
totalBitSize_forwardOnly(startPosition, endPosition) ==
    LET startOffset == (startPosition.byteOffset * 8) + startPosition.bitOffset
        endOffset == (endPosition.byteOffset * 8) + endPosition.bitOffset
    IN IF startOffset > endOffset THEN 0 ELSE endOffset - startOffset

\* lines 109-112
totalBitSize(startPosition, endPosition) ==
    LET startOffset == (startPosition.byteOffset * 8) + startPosition.bitOffset
        endOffset == (endPosition.byteOffset * 8) + endPosition.bitOffset
    IN IF startOffset > endOffset THEN startOffset - endOffset ELSE endOffset - startOffset

\* variant: a total equal to the fixed size is rejected too
sizeExceeded_atLeast(total, fixed) == fixed > 0 /\ total >= fixed

\* lines 113-115
sizeExceeded(total, fixed) == fixed > 0 /\ total > fixed

\* lines 113-118
sizeSet(total, fixed) == IF fixed > 0 THEN fixed ELSE total

\* variant: the signal is inspected inside an array too
stopsLoop_ignoresArray(inArray, signal) ==
    signal \in {"Return", "Break", "Continue"}

\* lines 126-136: does the loop stop after this entry
stopsLoop(inArray, signal) ==
    ~inArray /\ signal \in {"Return", "Break", "Continue"}

\* variant: Return is cleared like Break
signalAfter_returnCleared(inArray, signal) ==
    IF ~inArray /\ signal \in {"Return", "Break", "Continue"} THEN "None" ELSE signal

\* variant: Break is left pending like Return
signalAfter_breakPending(inArray, signal) ==
    IF ~inArray /\ signal = "Continue" THEN "None" ELSE signal

\* lines 126-136: the signal the loop leaves behind
signalAfter(inArray, signal) ==
    IF ~inArray /\ signal \in {"Break", "Continue"} THEN "None" ELSE signal

\* variant: Continue drops only the current entry's patterns
accumulatorAfter_keepEarlier(inArray, signal, acc, new) ==
    IF ~inArray /\ signal = "Continue" THEN acc ELSE acc \o new

\* lines 124-136: the accumulator after this entry
accumulatorAfter(inArray, signal, acc, new) ==
    IF ~inArray /\ signal = "Continue" THEN <<>> ELSE acc \o new

\* lines 123-137: setSize, accumulate, react to the control-flow signal
AfterEntry ==
    /\ pc = "entry"
    /\ LET total == totalBitSize(initialPosition, cursor)
       IN IF sizeExceeded(total, fixedSize)
          THEN /\ Fail("E0005:exceeded_size", EntryNode(idx))
               /\ scopeDepth' = ScopeExit(scopeDepth)
               /\ pops' = pops + 1
               /\ UNCHANGED <<bitSize, potentialPatterns, cfs>>
          ELSE /\ bitSize' = sizeSet(total, fixedSize)
               /\ potentialPatterns' = accumulatorAfter(arrayIndex, cfs, potentialPatterns, patterns)
               /\ cfs' = signalAfter(arrayIndex, cfs)
               /\ pc' = IF stopsLoop(arrayIndex, cfs) \/ idx = nEntries
                        THEN "assemble" ELSE "loop"
               /\ UNCHANGED <<scopeDepth, pops, err, errNode>>
    /\ UNCHANGED <<cursor, reversed, arrayIndex, endian, declVars, position, prevReversed,
                   reversedChanged, fixedSize, initialPosition, patterns, fields, idx,
                   orderExamined, patternReversed, result, preDepth, consumed, lastSignal,
                   returned, pushes, heapVars>>

\* variant: nothing is filtered
visibleFields_keepAll(acc) == acc

\* lines 140-148: members marked padding are left out
visibleFields(acc) == SelectSeq(acc, LAMBDA p : ~p.member \/ ~p.padding)

\* variant: no rewind
cursorAfter_noRewind(changed, cur, initPos) == cur

\* lines 151-152: where the cursor is left
cursorAfter(changed, cur, initPos) == IF changed THEN initPos ELSE cur

\* variant: the pattern records the flag the call started with
patternFlag_restored(current, previous) == previous

\* line 150: the pattern records the flag in effect, before line 157 restores it
patternFlag(current, previous) == current

\* lines 140-153: filter the padding, record the flag, rewind the cursor
Assemble ==
    /\ pc = "assemble"
    /\ fields' = visibleFields(potentialPatterns)
    /\ patternReversed' = patternFlag(reversed, prevReversed)
    /\ cursor' = cursorAfter(reversedChanged, cursor, initialPosition)
    /\ pc' = "finish"
    /\ UNCHANGED <<reversed, cfs, scopeDepth, arrayIndex, endian, declVars, position,
                   prevReversed, reversedChanged, fixedSize, initialPosition,
                   potentialPatterns, patterns, idx, orderExamined, bitSize, result, err,
                   errNode, historyVars, heapVars>>

\* variant: the visible members are returned next to the bitfield pattern
moveToVector_withMembers(p) == <<p>> \o p.fields

\* line 159: hlp::moveToVector, the one pattern as the whole result
moveToVector(p) == <<p>>

\* lines 155-159 and the scope exit: restore the flag, return the pattern
Finish ==
    /\ pc = "finish"
    /\ reversed' = prevReversed
    /\ result' = moveToVector([id |-> bitfieldPattern, bitSize |-> bitSize,
                                reversed |-> patternReversed, fields |-> fields])
    /\ scopeDepth' = ScopeExit(scopeDepth)
    /\ pops' = pops + 1
    /\ pc' = "done"
    /\ UNCHANGED <<cursor, cfs, arrayIndex, endian, declVars, localVars, bitSize,
                   patternReversed, err, errNode, preDepth, consumed, lastSignal, returned,
                   pushes, heapVars>>

\* the declaration is evaluated again by its caller, against the evaluator
\* state the previous evaluation left
Reevaluate ==
    /\ pc \in {"done", "failed"}
    /\ calls < MaxCalls
    /\ calls' = calls + 1
    /\ earlier' = earlier \cup {result[i].id : i \in 1..Len(result)}
    /\ pc' = "start"
    /\ position' = cursor
    /\ prevReversed' = reversed
    /\ reversedChanged' = FALSE
    /\ fixedSize' = 0
    /\ initialPosition' = cursor
    /\ potentialPatterns' = <<>>
    /\ patterns' = <<>>
    /\ fields' = <<>>
    /\ idx' = 0
    /\ orderExamined' = FALSE
    /\ bitSize' = 0
    /\ patternReversed' = FALSE
    /\ result' = <<>>
    /\ err' = "none"
    /\ errNode' = NoNode
    /\ preDepth' = scopeDepth
    /\ consumed' = 0
    /\ lastSignal' = cfs
    /\ returned' = <<>>
    /\ pushes' = 0
    /\ pops' = 0
    /\ UNCHANGED <<evaluatorVars, declVars, allocated, bitfieldPattern>>

Next ==
    \/ Enter
    \/ RejectLegacy
    \/ ResolveOrder
    \/ OpenScope
    \/ EvalEntry
    \/ AfterEntry
    \/ Assemble
    \/ Finish

Spec == Init /\ [][Next]_vars

\* repeated evaluation of one declaration
NextRepeat ==
    \/ Next
    \/ Reevaluate

\* the declarations evaluated repeatedly are the short ones
InitRepeat == Init /\ nEntries <= MaxRepeatEntries

SpecRepeat == InitRepeat /\ [][NextRepeat]_vars

TypeOK ==
    /\ pc \in {"start", "legacy", "order", "scope", "loop", "entry", "assemble", "finish",
               "done", "failed"}
    /\ cfs \in ControlFlowStatement
    /\ cursor.bitOffset \in 0..7
    /\ cursor.byteOffset \in Nat
    /\ scopeDepth \in Nat
    /\ idx \in 0..nEntries

\* ------------------------------------------------------------ properties
Returned == pc = "done"
Exited == pc \in {"done", "failed"}
AttributeErrors ==
    {"E0008:no_longer_supported", "E0008:expected_2_parameters", "E0008:invalid_order",
     "E0008:direction_void", "E0008:size_zero", "E0008:size_void"}
HasLegacy == \E a \in attributes : a.name \in {"left_to_right", "right_to_left"}
HasOrder == \E a \in attributes : a.name = "bitfield_order"
OrderArguments == (CHOOSE a \in attributes : a.name = "bitfield_order").arguments
Distance(a, b) == IF a > b THEN a - b ELSE b - a
WithoutPadding(ps) == SelectSeq(ps, LAMBDA p : ~(p.member /\ p.padding))

\* C1: on every exit path of createPatterns (return, attribute error, size
\* error, early exit) the global reversed-flag equals its value before the call.
C1_ReversedRestoredOnEveryExit ==
    (Exited /\ err \in AttributeErrors \cup {"none", "E0005:exceeded_size"}) =>
        reversed = prevReversed

C3_FixedSizeReported ==
    (Returned /\ fixedSize > 0) => result[1].bitSize = fixedSize

\* C4: with a fixed size N the bits consumed by the evaluated fields never
\* exceed N while the evaluation goes on or returns; the size error is raised
\* exactly when the total after a field is strictly greater than N, it cites
\* that field, and it ends the evaluation.
C4_SizeErrorExactlyOnOverflow ==
    /\ []((fixedSize > 0 /\ pc \in {"loop", "assemble", "finish", "done"}) =>
              consumed <= fixedSize)
    /\ []((err = "E0005:exceeded_size") =>
              /\ pc = "failed"
              /\ fixedSize > 0
              /\ consumed > fixedSize
              /\ errNode = EntryNode(idx))
    /\ [][(pc = "entry") =>
              ((pc' = "failed" /\ err' = "E0005:exceeded_size")
                  <=> (fixedSize > 0 /\ consumed > fixedSize))]_vars
    /\ [][(pc = "failed") => (idx' = idx /\ pc' = "failed")]_vars

C4_Witness ==
    /\ pc = "failed"
    /\ err = "E0005:exceeded_size"
    /\ idx = 2
    /\ idx < nEntries
    /\ consumed = fixedSize + 1

\* C5: the scope opened for the bitfield pattern is closed exactly once on
\* every exit after its opening and is neither opened nor closed on an
\* attribute error, so the scope depth after the call equals the depth before.
C5_ScopeClosedExactlyOnce ==
    /\ Exited => (scopeDepth = preDepth /\ pushes = pops)
    /\ (Exited /\ err \in AttributeErrors) => (pushes = 0 /\ pops = 0)
    /\ (Exited /\ err \notin AttributeErrors) => (pushes = 1 /\ pops = 1)
    /\ pops <= pushes

C5_Witness ==
    pc = "failed" /\ err = "E0005:exceeded_size" /\ pops = 1 /\ scopeDepth = preDepth

\* C6: on every failing exit path (attribute error or size error) the bit
\* cursor after the call equals its value before the call.
C6_CursorRestoredOnFailure ==
    (pc = "failed" /\ err \in AttributeErrors \cup {"E0005:exceeded_size"}) =>
        cursor = position

\* C7: outside an array context, once an entry leaves a pending Continue no
\* later entry is evaluated, and when the call returns the signal is None and
\* the visible member list is empty, earlier entries' patterns included.
C7_ContinueDiscardsEverything ==
    /\ []((~arrayIndex /\ lastSignal = "Continue") => pc # "loop")
    /\ []((Returned /\ ~arrayIndex /\ lastSignal = "Continue") =>
              /\ cfs = "None"
              /\ fields = <<>>
              /\ result[1].fields = <<>>)
    /\ [][(pc = "entry" /\ ~arrayIndex /\ cfs = "Continue" /\ pc' # "failed") =>
              (pc' = "assemble" /\ cfs' = "None" /\ potentialPatterns' = <<>>)]_vars

C7_Witness ==
    /\ Returned /\ ~arrayIndex /\ lastSignal = "Continue"
    /\ idx = 2 /\ nEntries = 3
    /\ Len(WithoutPadding(returned)) = 2

\* C8 (as claimed): outside an array context, after an entry leaves a pending
\* Break the signal is cleared and the visible member list holds the patterns
\* of the earlier entries only.
C8_BreakKeepsEarlierOnly ==
    (Returned /\ ~arrayIndex /\ lastSignal = "Break") =>
        /\ cfs = "None"
        /\ \A i \in 1..Len(fields) : fields[i].entry < idx

\* C8 (amended): outside an array context, once an entry leaves a pending
\* Break no later entry is evaluated, and when the call returns the signal is
\* None and the visible member list is every pattern returned so far, the
\* signalling entry's own patterns included, less the padding members.
C8_BreakKeepsEverything ==
    /\ []((~arrayIndex /\ lastSignal = "Break") => pc # "loop")
    /\ []((Returned /\ ~arrayIndex /\ lastSignal = "Break") =>
              /\ cfs = "None"
              /\ fields = WithoutPadding(returned)
              /\ result[1].fields = fields)

C8_Witness ==
    /\ Returned /\ ~arrayIndex /\ lastSignal = "Break"
    /\ idx = 2 /\ nEntries = 3
    /\ Len(fields) = 2 /\ fields[2].entry = 2

\* C9: a declaration carrying left_to_right or right_to_left always fails with
\* the attribute error, whatever else it carries, before bitfield_order is
\* examined and before any entry is evaluated, and leaves the cursor, the
\* reversed-flag, the control-flow signal and the scope stack as they were.
C9_LegacyAlwaysRejected ==
    HasLegacy =>
        /\ pc \in {"start", "legacy", "failed"}
        /\ (pc = "failed") =>
              /\ err = "E0008:no_longer_supported"
              /\ errNode.kind = "attribute"
              /\ errNode.name \in {"left_to_right", "right_to_left"}
        /\ ~orderExamined
        /\ idx = 0
        /\ cursor = position
        /\ reversed = prevReversed
        /\ cfs = "None"
        /\ scopeDepth = preDepth
        /\ pushes = 0

C9_Witness ==
    /\ pc = "failed"
    /\ \E a \in attributes : a.name = "right_to_left"
    /\ ~(\E a \in attributes : a.name = "left_to_right")
    /\ HasOrder
    /\ err = "E0008:no_longer_supported"

\* C10: bitfield_order fails with an attribute error whenever it does not have
\* exactly 2 arguments, its direction is void or not 0 or 1, or its size is
\* void or 0, and then no entry is evaluated and the cursor and the flag are
\* untouched; every other combination is accepted.
OrderIsInvalid ==
    \/ Len(OrderArguments) # 2
    \/ ~OrderArguments[1].literal
    \/ OrderArguments[1].value \notin {0, 1}
    \/ ~OrderArguments[2].literal
    \/ OrderArguments[2].value = 0

C10_OrderValidation ==
    (HasOrder /\ ~HasLegacy /\ pc \notin {"start", "legacy", "order"}) =>
        IF OrderIsInvalid
        THEN /\ pc = "failed"
             /\ err \in AttributeErrors
             /\ idx = 0
             /\ cursor = position
             /\ reversed = prevReversed
             /\ pushes = 0
        ELSE /\ err \notin AttributeErrors
             /\ fixedSize = OrderArguments[2].value

C10_Witness ==
    /\ pc = "failed"
    /\ err = "E0008:size_zero"
    /\ ~HasLegacy
    /\ Len(OrderArguments) = 2

\* C11: in every returned bitfield pattern no padding member is in the visible
\* member list, the visible list is the accumulated patterns less the padding
\* members in declaration order with non-member patterns passed through, and
\* the bits of padding entries still count in the final bit size.
ContinueDiscarded == ~arrayIndex /\ lastSignal = "Continue"

C11_PaddingHiddenButCounted ==
    Returned =>
        /\ \A i \in 1..Len(result[1].fields) :
               ~(result[1].fields[i].member /\ result[1].fields[i].padding)
        /\ result[1].fields = WithoutPadding(potentialPatterns)
        /\ ~ContinueDiscarded => result[1].fields = WithoutPadding(returned)
        /\ \A i \in 1..Len(returned) :
               (~returned[i].member /\ ~ContinueDiscarded) =>
                   \E j \in 1..Len(result[1].fields) : result[1].fields[j] = returned[i]
        /\ (fixedSize = 0) => result[1].bitSize = consumed

C11_Witness ==
    /\ Returned
    /\ fixedSize = 0
    /\ Len(returned) = 2
    /\ returned[1].padding /\ returned[1].entry = 1
    /\ returned[2].member /\ ~returned[2].padding
    /\ consumed = 2
    /\ result[1].bitSize = 2
    /\ result[1].fields = <<returned[2]>>

\* C12: with no bitfield_order the final bit size of a successful evaluation is
\* the sum of the bits of the entries that were evaluated, those at and before
\* a Continue included, and the reversed-flag ends as it started.
C12_NaturalSizeIsSumOfEvaluated ==
    (Returned /\ ~HasOrder) =>
        /\ result[1].bitSize = consumed
        /\ reversed = prevReversed
        /\ ~reversedChanged

C12_Witness ==
    /\ Returned /\ ~HasOrder
    /\ ContinueDiscarded
    /\ prevReversed
    /\ idx = 2 /\ nEntries = 3
    /\ consumed = 2
    /\ result[1].bitSize = 2

\* C13: every successful evaluation returns exactly one top-level pattern, the
\* bitfield pattern, whatever the entries and signals were, and the pattern is
\* a new one at each evaluation of the same declaration.
C13_OneFreshPattern ==
    Returned =>
        /\ Len(result) = 1
        /\ result[1].id = bitfieldPattern
        /\ result[1].id \notin earlier
        /\ result[1].fields = fields

C13_Witness ==
    /\ Returned
    /\ calls = 2
    /\ earlier = {1}
    /\ Len(result[1].fields) > 0

\* a bitfield_order that passes validation, on a declaration that reaches it
ValidOrder == HasOrder /\ ~HasLegacy /\ ~OrderIsInvalid
OrderDirection == OrderArguments[1].value
OrderSize == OrderArguments[2].value
BeforeFirstEntry == pc \in {"scope", "loop"} /\ idx = 0
DuringEntries == pc \in {"scope", "loop", "entry", "assemble"}

\* C14: with a valid bitfield_order(direction, N), if the resolved value
\* differs from the current flag then before the first entry is evaluated the
\* cursor has been advanced by exactly N bits and the flag is the resolved
\* value; if it equals the current flag neither is modified; and the flag keeps
\* the resolved value while the entries are evaluated.
C14_WindowReservedBeforeEntries ==
    ValidOrder =>
        LET resolved == (OrderDirection = 0) # (endian = "big")
        IN /\ BeforeFirstEntry =>
                 IF resolved # prevReversed
                 THEN /\ BitsOf(cursor) = BitsOf(position) + OrderSize
                      /\ reversed = resolved
                      /\ reversedChanged
                 ELSE /\ cursor = position
                      /\ reversed = prevReversed
                      /\ ~reversedChanged
           /\ DuringEntries => reversed = resolved

C14_Witness ==
    /\ ValidOrder
    /\ pc = "entry"
    /\ idx = 2
    /\ reversedChanged
    /\ reversed # prevReversed
    /\ BitsOf(initialPosition) = BitsOf(position) + OrderSize

\* C15: the resolved reversed value is true for MostToLeastSignificant under
\* little-endian and LeastToMostSignificant under big-endian, and false for
\* MostToLeastSignificant under big-endian and LeastToMostSignificant under
\* little-endian.
C15_ResolvedIsOrderXorEndian ==
    (ValidOrder /\ pc = "scope") =>
        /\ (OrderDirection = 0 /\ endian = "little") => reversed
        /\ (OrderDirection = 1 /\ endian = "big") => reversed
        /\ (OrderDirection = 0 /\ endian = "big") => ~reversed
        /\ (OrderDirection = 1 /\ endian = "little") => ~reversed

C15_Witness ==
    /\ ValidOrder
    /\ pc = "scope"
    /\ OrderDirection = 1
    /\ endian = "big"
    /\ ~prevReversed
    /\ reversed

\* C16: outside an array context, once an entry leaves a pending Return no
\* later entry is evaluated, every pattern returned so far is kept, the
\* signalling entry's included, and Return is still pending when the call
\* returns.
C16_ReturnKeepsEverythingAndStaysPending ==
    /\ []((~arrayIndex /\ lastSignal = "Return") => pc # "loop")
    /\ []((Returned /\ ~arrayIndex /\ lastSignal = "Return") =>
              /\ cfs = "Return"
              /\ potentialPatterns = returned
              /\ result[1].fields = WithoutPadding(returned))
    /\ [][(pc = "entry" /\ ~arrayIndex /\ cfs = "Return" /\ pc' # "failed") =>
              (pc' = "assemble" /\ cfs' = "Return")]_vars

C16_Witness ==
    /\ Returned /\ ~arrayIndex /\ lastSignal = "Return"
    /\ cfs = "Return"
    /\ idx = 2 /\ nEntries = 3
    /\ Len(result[1].fields) = 2
    /\ result[1].fields[2].entry = 2

\* C17: inside an array context the control-flow signal is neither inspected
\* nor modified: the entries are evaluated one by one in declaration order to
\* the end of the list unless an error is raised, nothing accumulated is
\* discarded, and the signal after the call is what the entries left.
C17_ArrayContextIgnoresSignal ==
    /\ []((Returned /\ arrayIndex) =>
              /\ idx = nEntries
              /\ potentialPatterns = returned
              /\ \A i \in 1..Len(returned) : \A j \in 1..Len(returned) :
                     (i < j) => returned[i].entry < returned[j].entry
              /\ cfs = lastSignal)
    /\ [][(arrayIndex /\ pc = "entry" /\ pc' # "failed") =>
              /\ cfs' = cfs
              /\ potentialPatterns' = potentialPatterns \o patterns
              /\ (pc' = "loop") <=> (idx < nEntries)]_vars
    /\ [][(arrayIndex /\ pc = "loop") => idx' = idx + 1]_vars

C17_Witness ==
    /\ Returned /\ arrayIndex
    /\ idx = 3
    /\ cfs = "Continue"
    /\ Len(returned) = 3
    /\ Len(potentialPatterns) = 3

\* C18: the reversed-flag stored in the returned pattern is the global flag in
\* effect while the entries were evaluated, so after a successful call whose
\* override changed the flag it differs from the restored global flag.
C18_PatternKeepsFlagInEffect ==
    Returned =>
        /\ reversedChanged =>
               /\ result[1].reversed # reversed
               /\ result[1].reversed = ((OrderDirection = 0) # (endian = "big"))
        /\ ~reversedChanged => result[1].reversed = prevReversed

C18_Witness ==
    /\ Returned
    /\ reversedChanged
    /\ result[1].reversed
    /\ ~reversed
    /\ idx > 0

\* C19: with a valid bitfield_order(direction, N) whose resolved value equals
\* the current flag, after a successful call the cursor is away from its entry
\* position by exactly the bits the evaluated entries consumed and the
\* pattern's bit size is N.
C19_NoWindowButSizeN ==
    (Returned /\ ValidOrder /\ ((OrderDirection = 0) # (endian = "big")) = prevReversed) =>
        /\ ~reversedChanged
        /\ Distance(BitsOf(cursor), BitsOf(position)) = consumed
        /\ result[1].bitSize = OrderSize
====
